---- MODULE Spec2Model ----
(***************************************************************************)
(* Model of the event-stream translation layer of yai-nexus-agentkit:      *)
(*   ToolCallTracker   (adapter/tool_call_tracker.py, sse_advanced.py)     *)
(*   EventTranslator   (adapter/event_translator.py, sse_advanced.py)      *)
(*   AGUIAdapter       (adapter/agui_adapter.py  : stream_events,          *)
(*                      adapter/sse_advanced.py  : event_stream_adapter)   *)
(* The adapter is an asynchronous generator.  The states of the model are  *)
(* its suspension points: not started, suspended at a yield (the consumer  *)
(* holds the event just yielded), awaiting the upstream stream, and ended. *)
(***************************************************************************)
EXTENDS Integers, Sequences, FiniteSets, TLC

\* ---------------------------------------------------------------- bounds
MaxEvents == 3          \* raw events the upstream yields in one run (Spec)
MaxToolEvents == 4      \* raw events the upstream yields in one run (SpecTools)
MaxOps == 5             \* operations called on one ToolCallTracker (SpecTracker)
MaxRunEvents == 2       \* raw events each of the concurrent runs reads (SpecRuns)
MaxCancelEvents == 2    \* raw events the upstream yields in one run (SpecCancel)
MaxReservedEvents == 3  \* raw events the upstream yields in one run (SpecReserved)
MaxWrites == 3          \* write() calls on one BaseSink (SpecSink)
MaxCalls == 3           \* get_llm_client calls on the LLMFactory (SpecFactory)
MaxClock == 5           \* milliseconds since tw_epoch the clock reaches (SpecSnow)
MaxGenerate == 3        \* generate() calls on one Snowflake (SpecSnow)
MaxChunks == 4          \* chunks astream yields in one run (SpecLLM)

\* ------------------------------------------------------- python values
ABSENT == "<absent>"          \* key not present in a dict
PyNone == "None"              \* the value None
EMPTY_DICT == "{}"            \* the dict {}
DICT_QX == "{q:x}"            \* the dict {"q": "x"}
DICT_R == "{r:[1,2]}"         \* the dict {"r": [1, 2]}
OBJECT == "<object>"          \* a value json cannot serialize

\* json.dumps(v, ensure_ascii=False) raises TypeError on these values
Unserializable(v) == v = OBJECT

\* mutant of JsonDumps: str(v), the Python text of the value
JsonDumps_str(v) ==
    CASE v = EMPTY_DICT -> "{}"
      [] v = DICT_QX    -> "{'q': 'x'}"
      [] v = DICT_R     -> "{'r': [1, 2]}"
      [] v = PyNone     -> "None"
      [] OTHER          -> "<object>"

\* json.dumps(v, ensure_ascii=False), for the values it accepts
JsonDumps(v) ==
    CASE v = EMPTY_DICT -> "{}"
      [] v = DICT_QX    -> "{\"q\": \"x\"}"
      [] v = DICT_R     -> "{\"r\": [1, 2]}"
      [] v = PyNone     -> "null"
      [] OTHER          -> "<TypeError>"

\* ------------------------------------------------ raw (upstream) events
\* LangGraphEventType: the closed enumeration of upstream kinds
LangGraphEventType ==
    { "on_tool_start", "on_tool_end",
      "on_chat_model_start", "on_chat_model_stream", "on_chat_model_end",
      "on_chain_start", "on_chain_stream", "on_chain_end",
      "on_node_start", "on_node_end",
      "on_custom_event",
      "on_llm_start", "on_llm_stream", "on_llm_end",
      "on_retriever_start", "on_retriever_end" }

INTERNAL_EVENT_MARKER == "agent_custom_event"

\* event["data"]: the keys the translator reads
Data(input, output, chunk, dname, payload) ==
    [input |-> input, output |-> output, chunk |-> chunk,
     name |-> dname, payload |-> payload]

NoData == Data(ABSENT, ABSENT, ABSENT, ABSENT, ABSENT)

\* a raw event: event["event"], event["name"], event["data"]
Raw(kind, name, data) == [event |-> kind, name |-> name, data |-> data]

ToolNames == {"search", "calc"}

\* tool-start / tool-end events the upstream may yield
ToolEvents ==
    { Raw("on_tool_start", n, Data(DICT_QX, ABSENT, ABSENT, ABSENT, ABSENT)) : n \in ToolNames }
    \cup { Raw("on_tool_start", "search", Data(OBJECT, ABSENT, ABSENT, ABSENT, ABSENT)),
           Raw("on_tool_start", ABSENT, NoData) }
    \cup { Raw("on_tool_end", n, Data(ABSENT, DICT_R, ABSENT, ABSENT, ABSENT)) : n \in ToolNames }
    \cup { Raw("on_tool_end", "search", Data(ABSENT, OBJECT, ABSENT, ABSENT, ABSENT)),
           Raw("on_tool_end", "search", Data(ABSENT, PyNone, ABSENT, ABSENT, ABSENT)),
           Raw("on_tool_end", ABSENT, NoData) }

\* the other raw events the upstream may yield
OtherEvents ==
    { Raw("on_chat_model_stream", ABSENT, Data(ABSENT, ABSENT, "Hel", ABSENT, ABSENT)),
      Raw("on_chat_model_stream", ABSENT, Data(ABSENT, ABSENT, "", ABSENT, ABSENT)),
      Raw("on_chain_start", "agent", NoData),
      Raw("on_chain_end", "agent", NoData),
      Raw("on_node_start", "agent", NoData),
      Raw("on_custom_event", INTERNAL_EVENT_MARKER,
          Data(ABSENT, ABSENT, ABSENT, "chart_generated", DICT_QX)),
      Raw("on_custom_event", "unrelated_marker",
          Data(ABSENT, ABSENT, ABSENT, "chart_generated", DICT_QX)),
      Raw("on_chat_model_start", ABSENT, NoData),
      Raw("unknown_event_type", ABSENT, NoData),
      Raw(ABSENT, "search", NoData) }

\* the raw events of Spec: the events of one tool and the other events
RawEvents ==
    { Raw("on_tool_start", "search", Data(DICT_QX, ABSENT, ABSENT, ABSENT, ABSENT)),
      Raw("on_tool_start", "search", Data(OBJECT, ABSENT, ABSENT, ABSENT, ABSENT)),
      Raw("on_tool_end", "search", Data(ABSENT, DICT_R, ABSENT, ABSENT, ABSENT)) }
    \cup OtherEvents

\* str(e) of the exceptions the upstream iteration may raise
UpstreamErrors == {"ConnectionLost", "Intentional test error"}

\* ------------------------------------------------------ protocol events
NoId == 0

Proto(type, id, name, body) == [type |-> type, id |-> id, name |-> name, body |-> body]

RunStartedEvent(thread_id, run_id) == Proto("RUN_STARTED", NoId, run_id, thread_id)
RunFinishedEvent(thread_id, run_id) == Proto("RUN_FINISHED", NoId, run_id, thread_id)
RunErrorEvent(message) == Proto("RUN_ERROR", NoId, "", message)
ToolCallStartEvent(call_id, tool_name) == Proto("TOOL_CALL_START", call_id, tool_name, "")
ToolCallArgsEvent(call_id, delta) == Proto("TOOL_CALL_ARGS", call_id, "", delta)
ToolCallEndEvent(call_id) == Proto("TOOL_CALL_END", call_id, "", "")
\* message_id = call_id, tool_call_id = call_id
ToolCallResultEvent(call_id, content) == Proto("TOOL_CALL_RESULT", call_id, "", content)
TextMessageChunkEvent(delta) == Proto("TEXT_MESSAGE_CHUNK", NoId, "", delta)
StepStartedEvent(name) == Proto("STEP_STARTED", NoId, name, "")
StepFinishedEvent(name) == Proto("STEP_FINISHED", NoId, name, "")
CustomEvent(name, value) == Proto("CUSTOM", NoId, name, value)
\* sse_advanced.py
ThinkingStartEvent(title) == Proto("THINKING_START", NoId, title, "")
ThinkingEndEvent == Proto("THINKING_END", NoId, "", "")
\* event_translator.py
ThinkingTextMessageStartEvent == Proto("THINKING_TEXT_MESSAGE_START", NoId, "", "")
ThinkingTextMessageEndEvent == Proto("THINKING_TEXT_MESSAGE_END", NoId, "", "")

TerminalTypes == {"RUN_FINISHED", "RUN_ERROR"}

\* --------------------------------------------------------------- state
VARIABLES
    variant,        \* "agui": agui_adapter.stream_events, "sse": sse_advanced.event_stream_adapter
    logLevel,       \* effective level of the stdlib logger: "INFO", "WARNING" (default), "OFF"
    task,           \* [id, thread_id] of the Task
    pc,             \* suspension point of the adapter generator
    active_calls,   \* ToolCallTracker.active_calls: tool_name -> call_id
    nextId,         \* number of uuid4 values drawn so far
    pending,        \* protocol events the running translation will still yield
    pendingExc,     \* exception the running translation raises after them ("none" if none)
    out,            \* protocol events handed to the consumer, in order
    outSrc,         \* history: for each element of out, the index in rawlog of its raw event (0: the adapter)
    rawlog,         \* history: raw events read from the upstream, in order
    trlog,          \* history: for each raw event, what its translation yields and raises
    upstreamErr,    \* history: str(e) of the exception the upstream raised ("" if none)
    upstreamClosed, \* the upstream iterator has been closed (aclose) after the consumer closed the run
    oplog,          \* history: operations called on one ToolCallTracker, with their results
    trackers,       \* concurrent runs: translator instance -> active_calls of its tracker
    runs,           \* concurrent runs: run -> raw events read and protocol events yielded
    sink,           \* one BaseSink: its fields, its background worker and what was written and sent
    factory,        \* the LLMFactory singleton: lock, client cache and the threads calling it
    snow,           \* one Snowflake: its fields, the clock and the ids it returned
    llm             \* plain-LLM path of the adapter: what astream and ainvoke did

\* state outside one run of the stream adapter
auxVars == << upstreamClosed, oplog, trackers, runs, sink, factory, snow, llm >>

\* state of one run of the stream adapter
adapterVars == << variant, logLevel, task, pc, active_calls, nextId, pending, pendingExc,
                 out, outSrc, rawlog, trlog, upstreamErr >>

vars == << variant, logLevel, task, pc, active_calls, nextId, pending, pendingExc,
           out, outSrc, rawlog, trlog, upstreamErr, upstreamClosed, oplog, trackers, runs,
           sink, factory, snow, llm >>

\* ------------------------------------------------------ ToolCallTracker
\* mutant of Uuid4: one identifier drawn once and used for every call
Uuid4_once(n) == 1

\* uuid.uuid4().hex: the value of the n-th draw; every draw is a new value
Uuid4(n) == n + 1

\* mutant of start_call: self.active_calls.setdefault(tool_name, call_id)
start_call_setdefault(calls, tool_name, call_id) ==
    [n \in (DOMAIN calls) \cup {tool_name} |-> IF n \in DOMAIN calls THEN calls[n] ELSE call_id]

\* self.active_calls[tool_name] = call_id
start_call(calls, tool_name, call_id) ==
    [n \in (DOMAIN calls) \cup {tool_name} |-> IF n = tool_name THEN call_id ELSE calls[n]]

\* mutant of get_call_id: falls back to the call opened last
get_call_id_latest(calls, tool_name) ==
    IF tool_name \in DOMAIN calls THEN calls[tool_name]
    ELSE IF DOMAIN calls = {} THEN NoId
    ELSE LET last == CHOOSE n \in DOMAIN calls : \A m \in DOMAIN calls : calls[m] <= calls[n]
         IN  calls[last]

\* self.active_calls.get(tool_name): NoId stands for None
get_call_id(calls, tool_name) ==
    IF tool_name \in DOMAIN calls THEN calls[tool_name] ELSE NoId

\* mutant of end_call: self.active_calls.popitem(), the record opened last
end_call_popitem(calls, tool_name) ==
    IF DOMAIN calls = {}
    THEN [id |-> NoId, calls |-> calls]
    ELSE LET last == CHOOSE n \in DOMAIN calls : \A m \in DOMAIN calls : calls[m] <= calls[n]
         IN  [id |-> calls[last], calls |-> [n \in (DOMAIN calls) \ {last} |-> calls[n]]]

\* self.active_calls.pop(tool_name, None): the value returned and the dict left
end_call(calls, tool_name) ==
    [id    |-> get_call_id(calls, tool_name),
     calls |-> [n \in (DOMAIN calls) \ {tool_name} |-> calls[n]]]

\* ------------------------------------------------------ EventTranslator
\* what one run of the translate_event generator does: the events it yields,
\* the exception it raises after them ("none": it returns), the tracker and
\* the uuid counter it leaves
Result(events, exc, calls, nid) == [events |-> events, exc |-> exc, calls |-> calls, nid |-> nid]

\* event.get("name", default)
NameOr(event, default) == IF event.name = ABSENT THEN default ELSE event.name

handle_tool_start(event, calls, nid) ==
    LET tool_name == NameOr(event, "unknown")
        tool_input == IF event.data.input = ABSENT THEN EMPTY_DICT ELSE event.data.input
        call_id == Uuid4(nid)
        calls2 == start_call(calls, tool_name, call_id)
        started == ToolCallStartEvent(call_id, tool_name)
    IN  IF Unserializable(tool_input)
        THEN Result(<<started>>, "TypeError", calls2, nid + 1)
        ELSE Result(<<started, ToolCallArgsEvent(call_id, JsonDumps(tool_input))>>,
                    "none", calls2, nid + 1)

\* mutant of handle_tool_end: a tool-end without an open record raises
handle_tool_end_orphan_raises(event, calls, nid) ==
    LET tool_name == NameOr(event, "unknown")
        tool_output == IF event.data.output = ABSENT THEN PyNone ELSE event.data.output
        popped == end_call(calls, tool_name)
        call_id == popped.id
    IN  IF call_id = NoId
        THEN Result(<< >>, "ToolCallTrackingError", popped.calls, nid)
        ELSE IF tool_output # PyNone /\ Unserializable(tool_output)
        THEN Result(<<ToolCallEndEvent(call_id)>>, "TypeError", popped.calls, nid)
        ELSE Result(<<ToolCallEndEvent(call_id),
                      ToolCallResultEvent(call_id,
                          IF tool_output # PyNone THEN JsonDumps(tool_output) ELSE "")>>,
                    "none", popped.calls, nid)

handle_tool_end(event, calls, nid) ==
    LET tool_name == NameOr(event, "unknown")
        tool_output == IF event.data.output = ABSENT THEN PyNone ELSE event.data.output
        popped == end_call(calls, tool_name)
        call_id == popped.id
    IN  IF call_id = NoId
        THEN Result(<< >>, "none", popped.calls, nid)
        ELSE IF tool_output # PyNone /\ Unserializable(tool_output)
        THEN Result(<<ToolCallEndEvent(call_id)>>, "TypeError", popped.calls, nid)
        ELSE Result(<<ToolCallEndEvent(call_id),
                      ToolCallResultEvent(call_id,
                          IF tool_output # PyNone THEN JsonDumps(tool_output) ELSE "")>>,
                    "none", popped.calls, nid)

handle_chat_model_stream(event, calls, nid) ==
    LET chunk == event.data.chunk
    IN  IF chunk # ABSENT /\ chunk # ""
        THEN Result(<<TextMessageChunkEvent(chunk)>>, "none", calls, nid)
        ELSE Result(<< >>, "none", calls, nid)

\* mutant of handle_custom_event: every custom event is forwarded
handle_custom_event_unfiltered(event, calls, nid) ==
    Result(<<CustomEvent(event.data.name, event.data.payload)>>, "none", calls, nid)

handle_custom_event(event, calls, nid) ==
    IF event.name = INTERNAL_EVENT_MARKER
    THEN Result(<<CustomEvent(event.data.name, event.data.payload)>>, "none", calls, nid)
    ELSE Result(<< >>, "none", calls, nid)

\* mutant of unknown_event_type: raise UnknownEventTypeError(kind_str)
unknown_event_type_raises(event, calls, nid) == Result(<< >>, "UnknownEventTypeError", calls, nid)

\* LangGraphEventType(kind_str) raises ValueError: the kind is logged with a
\* preview of the data, and the generator returns
unknown_event_type(event, calls, nid) == Result(<< >>, "none", calls, nid)

\* mutant of reserved_event_type: the translator state is reset
reserved_event_type_resets(event, calls, nid) == Result(<< >>, "none", << >>, nid)

\* an enumerated kind no branch of the if / elif chain names: the generator
\* falls through the chain and returns
reserved_event_type(event, calls, nid) == Result(<< >>, "none", calls, nid)

\* EventTranslator.translate_event (v = "agui") and AGUIAdapter._translate_event (v = "sse")
translate_event(v, event, calls, nid) ==
    LET kind == event.event
    IN  IF kind = ABSENT THEN Result(<< >>, "KeyError", calls, nid)
        ELSE IF kind \notin LangGraphEventType THEN unknown_event_type(event, calls, nid)
        ELSE CASE kind = "on_tool_start" -> handle_tool_start(event, calls, nid)
               [] kind = "on_tool_end" -> handle_tool_end(event, calls, nid)
               [] kind = "on_chat_model_stream" -> handle_chat_model_stream(event, calls, nid)
               [] kind = "on_chain_start" ->
                    Result(<<IF v = "sse" THEN ThinkingStartEvent(NameOr(event, "Unknown"))
                                          ELSE ThinkingTextMessageStartEvent>>, "none", calls, nid)
               [] kind = "on_chain_end" ->
                    Result(<<IF v = "sse" THEN ThinkingEndEvent
                                          ELSE ThinkingTextMessageEndEvent>>, "none", calls, nid)
               [] kind = "on_node_start" ->
                    Result(<<StepStartedEvent(NameOr(event, "Unknown"))>>, "none", calls, nid)
               [] kind = "on_node_end" ->
                    Result(<<StepFinishedEvent(NameOr(event, "Unknown"))>>, "none", calls, nid)
               [] kind = "on_custom_event" -> handle_custom_event(event, calls, nid)
               [] OTHER -> reserved_event_type(event, calls, nid)

\* ------------------------------------------------------------- logging
\* logger = logging.getLogger(__name__): Logger.info(msg, **kwargs) passes the
\* keywords to Logger._log when the level is enabled, and _log raises
\* TypeError on a keyword it does not know (task_id, event_type, ...)
InfoKwRaises(v, level) == v = "agui" /\ level = "INFO"

\* Logger.exception(msg, **kwargs): the same at level ERROR
ExceptionKwRaises(v, level) == v = "agui" /\ level \in {"INFO", "WARNING"}

LoggingTypeError == "Logger._log() got an unexpected keyword argument"

\* ------------------------------------------------------- stream adapter
\* the thread id of the task is ignored
effective_thread_id_run_id(t) == t.id

\* effective_thread_id = task.thread_id if task.thread_id else task.id
\* (None and the empty string are false)
effective_thread_id(t) == IF t.thread_id \notin {PyNone, ""} THEN t.thread_id ELSE t.id

\* Task(id, query, thread_id): without thread id, with one, with an empty one
Tasks == { [id |-> "run1", thread_id |-> PyNone], [id |-> "run1", thread_id |-> "thread1"],
           [id |-> "run1", thread_id |-> ""] }

\* the concurrent runs of one adapter
Runs == {1, 2}

InitAdapter ==
    /\ variant \in {"agui", "sse"}
    /\ logLevel \in {"INFO", "WARNING", "OFF"}
    \* sse_advanced.py passes no keywords to its logger: the level plays no role there
    /\ variant = "sse" => logLevel = "WARNING"
    /\ task \in Tasks
    \* models.py: thread_id has min_length=1; the Task of sse_advanced.py has no such constraint
    /\ variant = "agui" => task.thread_id # ""
    /\ pc = "NotStarted"
    /\ active_calls = << >>
    /\ nextId = 0
    /\ pending = << >>
    /\ pendingExc = "none"
    /\ out = << >>
    /\ outSrc = << >>
    /\ rawlog = << >>
    /\ trlog = << >>
    /\ upstreamErr = ""
    /\ upstreamClosed = FALSE
    /\ oplog = << >>
    /\ trackers = [r \in Runs |-> << >>]
    /\ runs = [r \in Runs |-> [log |-> << >>, at |-> << >>, out |-> << >>]]

\* objects no run of the adapter uses
Unused == [used |-> FALSE]

Init ==
    /\ InitAdapter
    /\ sink = Unused
    /\ factory = Unused
    /\ snow = Unused
    /\ llm = Unused

\* yield ev: the consumer receives ev
Emit(ev, src) ==
    /\ out' = Append(out, ev)
    /\ outSrc' = Append(outSrc, src)

\* mutant of NextPending: the event produced last is forwarded first
NextPending_last(p) == p[Len(p)]

\* the event the translation generator yields next, and what remains
NextPending(p) == Head(p)
RestPending(p) == Tail(p)

\* the outer handler: except Exception as e (agui_adapter.py 132-146, sse_advanced.py 144-148)
OuterExcept(message) ==
    IF ExceptionKwRaises(variant, logLevel)
    THEN /\ pc' = "Raised"
         /\ UNCHANGED << out, outSrc >>
    ELSE /\ Emit(RunErrorEvent(message), 0)
         /\ pc' = "Errored"

\* the translation of the current raw event is over with exception exc
\* ("none": it returned): the handlers of the inner try, then the next
\* iteration of the async for
AfterTranslation(exc) ==
    IF exc = "none" \/ exc = "EventTranslationError"
    THEN /\ pc' = "Running"
         /\ UNCHANGED << out, outSrc >>
    ELSE IF ExceptionKwRaises(variant, logLevel)
    THEN OuterExcept(LoggingTypeError)
    ELSE /\ pc' = "Running"
         /\ UNCHANGED << out, outSrc >>

\* the first pull opens the upstream iteration without yielding run_started
Start_reads_first ==
    /\ pc = "NotStarted"
    /\ pc' = "Running"
    /\ UNCHANGED << variant, logLevel, task, active_calls, nextId, pending, pendingExc,
                    out, outSrc, rawlog, trlog, upstreamErr >>
    /\ UNCHANGED auxVars

\* the consumer's first pull: the generator runs to yield run_started
Start ==
    /\ pc = "NotStarted"
    /\ IF InfoKwRaises(variant, logLevel)
       THEN OuterExcept(LoggingTypeError)
       ELSE /\ Emit(RunStartedEvent(effective_thread_id(task), task.id), 0)
            /\ pc' = "Yielded"
    /\ UNCHANGED << variant, logLevel, task, active_calls, nextId, pending, pendingExc,
                    rawlog, trlog, upstreamErr >>
    /\ UNCHANGED auxVars

\* mutant of Resume: the adapter goes on to read the upstream while events of
\* the current translation are still to be yielded
Resume_prefetch ==
    /\ pc = "Yielded"
    /\ IF pending # << >>
       THEN /\ pc' = "Running"
            /\ UNCHANGED << out, outSrc, pending, pendingExc >>
       ELSE /\ AfterTranslation(pendingExc)
            /\ pendingExc' = "none"
            /\ UNCHANGED pending
    /\ UNCHANGED << variant, logLevel, task, active_calls, nextId, rawlog, trlog, upstreamErr >>
    /\ UNCHANGED auxVars

\* the consumer pulls while the generator is suspended at a yield of the run:
\* the translation yields its next event, or is over and the adapter awaits
\* the upstream
Resume ==
    /\ pc = "Yielded"
    /\ IF pending # << >>
       THEN /\ Emit(NextPending(pending), Len(rawlog))
            /\ pending' = RestPending(pending)
            /\ UNCHANGED << pc, pendingExc >>
       ELSE /\ AfterTranslation(pendingExc)
            /\ pendingExc' = "none"
            /\ UNCHANGED pending
    /\ UNCHANGED << variant, logLevel, task, active_calls, nextId, rawlog, trlog, upstreamErr >>
    /\ UNCHANGED auxVars

\* the upstream yields the raw event e: the translation runs to its first
\* yield, or to its end when it yields nothing
UpstreamYield(e) ==
    /\ pc = "Running"
    /\ LET r == translate_event(variant, e, active_calls, nextId)
       IN  /\ active_calls' = r.calls
           /\ nextId' = r.nid
           /\ rawlog' = Append(rawlog, e)
           /\ trlog' = Append(trlog, [events |-> r.events, exc |-> r.exc])
           /\ IF r.events # << >>
              THEN /\ Emit(NextPending(r.events), Len(rawlog) + 1)
                   /\ pending' = RestPending(r.events)
                   /\ pendingExc' = r.exc
                   /\ pc' = "Yielded"
              ELSE /\ AfterTranslation(r.exc)
                   /\ UNCHANGED << pending, pendingExc >>
    /\ UNCHANGED << variant, logLevel, task, upstreamErr >>
    /\ UNCHANGED auxVars

\* the upstream is exhausted: run_finished is yielded
UpstreamDone ==
    /\ pc = "Running"
    /\ Emit(RunFinishedEvent(effective_thread_id(task), task.id), 0)
    /\ pc' = "Finished"
    /\ UNCHANGED << variant, logLevel, task, active_calls, nextId, pending, pendingExc,
                    rawlog, trlog, upstreamErr >>
    /\ UNCHANGED auxVars

\* the upstream iteration raises an exception whose text is message
UpstreamRaise(message) ==
    /\ pc = "Running"
    /\ upstreamErr' = message
    /\ OuterExcept(message)
    /\ UNCHANGED << variant, logLevel, task, active_calls, nextId, pending, pendingExc,
                    rawlog, trlog >>
    /\ UNCHANGED auxVars

\* the consumer pulls after the terminal event: the generator returns
Exhaust ==
    /\ pc \in {"Finished", "Errored"}
    /\ pc' = "Exhausted"
    /\ UNCHANGED << variant, logLevel, task, active_calls, nextId, pending, pendingExc,
                    out, outSrc, rawlog, trlog, upstreamErr >>
    /\ UNCHANGED auxVars

YieldRaw == \E e \in RawEvents : Len(rawlog) < MaxEvents /\ UpstreamYield(e)
YieldTool == \E e \in ToolEvents : Len(rawlog) < MaxToolEvents /\ UpstreamYield(e)
RaiseAny == \E m \in UpstreamErrors : UpstreamRaise(m)

Next == Start \/ Resume \/ YieldRaw \/ UpstreamDone \/ RaiseAny \/ Exhaust

Spec == Init /\ [][Next]_vars

\* runs whose upstream yields tool-start and tool-end events only
NextTools == Start \/ Resume \/ YieldTool \/ UpstreamDone \/ RaiseAny \/ Exhaust

\* the thread id plays no role in the translation of tool events
InitTools == Init /\ task.thread_id = PyNone

SpecTools == InitTools /\ [][NextTools]_vars

\* -------------------------------------------------------- reserved kinds
\* raw events of every enumerated kind, with a tool call to open and end
ReservedRunEvents ==
    { Raw(k, "agent", NoData) : k \in LangGraphEventType
                                      \ {"on_tool_start", "on_tool_end", "on_custom_event"} }
    \cup { Raw("on_tool_start", "search", Data(DICT_QX, ABSENT, ABSENT, ABSENT, ABSENT)),
           Raw("on_tool_end", "search", Data(ABSENT, DICT_R, ABSENT, ABSENT, ABSENT)) }

YieldReserved == \E e \in ReservedRunEvents : Len(rawlog) < MaxReservedEvents /\ UpstreamYield(e)

NextReserved == Start \/ Resume \/ YieldReserved \/ UpstreamDone \/ RaiseAny \/ Exhaust

SpecReserved == InitTools /\ [][NextReserved]_vars

\* ---------------------------------------------------------- cancellation
\* the consumer closes the generator while it is suspended at a yield of the
\* run: GeneratorExit is raised at the yield; it is no Exception, so neither
\* handler catches it, nothing more is yielded and the generator ends. The
\* async for statement does not close the iterator it was iterating.
Cancel ==
    /\ pc = "Yielded"
    /\ pc' = "Closed"
    /\ UNCHANGED << variant, logLevel, task, active_calls, nextId, pending, pendingExc,
                    out, outSrc, rawlog, trlog, upstreamErr >>
    /\ UNCHANGED auxVars

\* the interpreter finalizes the abandoned upstream iterator: it may do so
\* when the iterator is an async generator nothing else refers to and the
\* event loop is still running
Finalize ==
    /\ pc = "Closed"
    /\ rawlog # << >>
    /\ ~upstreamClosed
    /\ upstreamClosed' = TRUE
    /\ UNCHANGED << variant, logLevel, task, pc, active_calls, nextId, pending, pendingExc,
                    out, outSrc, rawlog, trlog, upstreamErr, oplog, trackers, runs,
                    sink, factory, snow, llm >>

YieldCancel == \E e \in RawEvents : Len(rawlog) < MaxCancelEvents /\ UpstreamYield(e)

NextCancel ==
    Start \/ Resume \/ YieldCancel \/ UpstreamDone \/ RaiseAny \/ Exhaust \/ Cancel \/ Finalize

SpecCancel == Init /\ [][NextCancel]_vars

\* ------------------------------------------------- one ToolCallTracker
\* ToolCallTracker(): self.active_calls = {}
InitTracker ==
    /\ Init
    /\ variant = "agui"
    /\ logLevel = "WARNING"
    /\ task.thread_id = PyNone

\* what the caller of a tracker operation observes
Op(op, tool_name, ret) == [op |-> op, name |-> tool_name, ret |-> ret]

\* start_call(tool_name): a new uuid is recorded under the name and returned
TrackerStart(tool_name) ==
    /\ Len(oplog) < MaxOps
    /\ active_calls' = start_call(active_calls, tool_name, Uuid4(nextId))
    /\ nextId' = nextId + 1
    /\ oplog' = Append(oplog, Op("start_call", tool_name, Uuid4(nextId)))
    /\ UNCHANGED << variant, logLevel, task, pc, pending, pendingExc, out, outSrc,
                    rawlog, trlog, upstreamErr, upstreamClosed, trackers, runs,
                    sink, factory, snow, llm >>

\* end_call(tool_name): the record of the name is popped and returned
TrackerEnd(tool_name) ==
    /\ Len(oplog) < MaxOps
    /\ active_calls' = end_call(active_calls, tool_name).calls
    /\ oplog' = Append(oplog, Op("end_call", tool_name, end_call(active_calls, tool_name).id))
    /\ UNCHANGED << variant, logLevel, task, pc, nextId, pending, pendingExc, out, outSrc,
                    rawlog, trlog, upstreamErr, upstreamClosed, trackers, runs,
                    sink, factory, snow, llm >>

\* get_call_id(tool_name): the record of the name is looked up
TrackerGet(tool_name) ==
    /\ Len(oplog) < MaxOps
    /\ oplog' = Append(oplog, Op("get_call_id", tool_name, get_call_id(active_calls, tool_name)))
    /\ UNCHANGED << variant, logLevel, task, pc, active_calls, nextId, pending, pendingExc,
                    out, outSrc, rawlog, trlog, upstreamErr, upstreamClosed, trackers, runs,
                    sink, factory, snow, llm >>

StartAny == \E n \in ToolNames : TrackerStart(n)
EndAny == \E n \in ToolNames : TrackerEnd(n)
GetAny == \E n \in ToolNames : TrackerGet(n)

NextTracker == StartAny \/ EndAny \/ GetAny

SpecTracker == InitTracker /\ [][NextTracker]_vars

\* ------------------------------------------------------ concurrent runs
\* the raw events the upstreams of concurrent runs yield
ConcurrentEvents ==
    { Raw("on_tool_start", n, Data(DICT_QX, ABSENT, ABSENT, ABSENT, ABSENT)) : n \in ToolNames }
    \cup { Raw("on_tool_end", n, Data(ABSENT, DICT_R, ABSENT, ABSENT, ABSENT)) : n \in ToolNames }

\* mutant of TranslatorOf: every run uses the module-level default_translator
TranslatorOf_default(r) == 1

\* the translator, hence the tracker, run r uses: the one it constructed
TranslatorOf(r) == r

InitRuns == InitTools /\ logLevel = "WARNING"

\* run r reads the raw event e from its upstream and forwards its translation;
\* runs[r].at records where the read falls among the reads of all runs
RunEvent(r, e) ==
    /\ Len(runs[r].log) < MaxRunEvents
    /\ LET k == TranslatorOf(r)
           res == translate_event(variant, e, trackers[k], nextId)
           n == 1 + Len(runs[1].log) + Len(runs[2].log)
       IN  /\ trackers' = [trackers EXCEPT ![k] = res.calls]
           /\ nextId' = res.nid
           /\ runs' = [runs EXCEPT ![r] = [log |-> Append(@.log, e),
                                           at  |-> Append(@.at, n),
                                           out |-> @.out \o res.events]]
    /\ UNCHANGED << variant, logLevel, task, pc, active_calls, pending, pendingExc,
                    out, outSrc, rawlog, trlog, upstreamErr, upstreamClosed, oplog,
                    sink, factory, snow, llm >>

NextRuns == \E r \in Runs : \E e \in ConcurrentEvents : RunEvent(r, e)

SpecRuns == InitRuns /\ [][NextRuns]_vars

\* ------------------------------------------------------------- BaseSink
\* SinkConfig: the fields the queue, the batching and the retry loop read.
\* asyncio.Queue(maxsize=0) is unbounded.
SinkConfigs == [queue_size : {0, 1, 2}, batch_size : {1, 2}, max_retries : {0, 1}]

\* BaseSink.__init__; elapsed tells whether flush_interval has passed since
\* last_flush; writes[k] is what became of the k-th message written, sendlog
\* the calls of _send_batch with their batches and results
BaseSink(config) ==
    [used |-> TRUE, config |-> config,
     running |-> FALSE, hasQueue |-> FALSE, queue |-> << >>, unfinished |-> 0,
     worker |-> "None", batch |-> << >>, attempt |-> 0, elapsed |-> FALSE,
     start |-> "NotCalled", stop |-> "NotCalled",
     logs_sent |-> 0, logs_failed |-> 0, connection_errors |-> 0,
     writes |-> << >>, sendlog |-> << >>]

InitSink ==
    /\ InitAdapter
    /\ variant = "sse"
    /\ task.thread_id = PyNone
    /\ sink \in { BaseSink(c) : c \in SinkConfigs }
    /\ factory = Unused
    /\ snow = Unused
    /\ llm = Unused

\* a step of the sink: nothing else changes
SinkStep(s) ==
    /\ sink' = s
    /\ UNCHANGED << adapterVars, upstreamClosed, oplog, trackers, runs, factory, snow, llm >>

QueueFull_late(s) == s.config.queue_size > 0 /\ Len(s.queue) > s.config.queue_size

\* asyncio.Queue.full(): never for maxsize <= 0
QueueFull(s) == s.config.queue_size > 0 /\ Len(s.queue) >= s.config.queue_size

\* BaseSink.write(message), message being the number of the write
write(s) ==
    LET message == Len(s.writes) + 1
    IN  IF ~s.running \/ ~s.hasQueue
        THEN [s EXCEPT !.writes = Append(@, "discarded")]
        ELSE IF QueueFull(s)
        THEN [s EXCEPT !.logs_failed = @ + 1, !.writes = Append(@, "dropped")]
        ELSE [s EXCEPT !.queue = Append(@, message), !.unfinished = @ + 1,
                       !.writes = Append(@, "accepted")]

\* while self._running or (self._queue and not self._queue.empty()): the
\* worker waits for the next message, or leaves the loop and returns
LoopTest(s) ==
    IF s.running \/ s.queue # << >>
    THEN [s EXCEPT !.worker = "Waiting"]
    ELSE [s EXCEPT !.worker = "Done"]

\* await self._send_batch(messages): the call is made, its result awaited
CallSend(s, attempt) ==
    [s EXCEPT !.worker = "Sending", !.attempt = attempt,
              !.sendlog = Append(@, [batch |-> s.batch, attempt |-> attempt, result |-> "pending"])]

\* after _flush_batch returned: batch.clear(), last_flush = time.time(),
\* next iteration
AfterFlush(s) == LoopTest([s EXCEPT !.batch = << >>, !.elapsed = FALSE])

\* should_flush and batch
Check(s) ==
    IF s.batch # << >> /\ (Len(s.batch) >= s.config.batch_size \/ s.elapsed)
    THEN IF s.config.max_retries + 1 > 0 THEN CallSend(s, 0) ELSE AfterFlush(s)
    ELSE LoopTest(s)

MoreAttempts_inclusive(attempt, max_retries) == attempt <= max_retries

\* if attempt < self.config.max_retries: sleep and try again
MoreAttempts(attempt, max_retries) == attempt < max_retries

InitFailed_running(s) ==
    [s EXCEPT !.connection_errors = @ + 1, !.start = "Failed"]

\* the except branch of start(): _initialize_connection raised
InitFailed(s) ==
    [s EXCEPT !.running = FALSE, !.connection_errors = @ + 1, !.start = "Failed"]

\* start(): the queue and the worker task are created, then the connection
\* is initialized, which returns, raises, or suspends first
SinkStart(init) ==
    /\ sink.start = "NotCalled"
    /\ ~sink.running
    /\ LET s == [sink EXCEPT !.running = TRUE, !.hasQueue = TRUE, !.queue = << >>,
                             !.worker = "Created"]
       IN  CASE init = "returns" -> SinkStep([s EXCEPT !.start = "Started"])
             [] init = "raises" -> SinkStep(InitFailed(s))
             [] init = "suspends" -> SinkStep([s EXCEPT !.start = "Initializing"])

\* _initialize_connection ends after it had suspended
SinkInitDone(ok) ==
    /\ sink.start = "Initializing"
    /\ IF ok THEN SinkStep([sink EXCEPT !.start = "Started"]) ELSE SinkStep(InitFailed(sink))

\* write() called by loguru
SinkWrite ==
    /\ Len(sink.writes) < MaxWrites
    /\ SinkStep(write(sink))

\* self._background_task.cancel(); await it: a worker that has not ended is
\* cancelled where it is suspended, CancelledError being no Exception
CancelWorker(s) ==
    IF s.worker \in {"None", "Done"} THEN s ELSE [s EXCEPT !.worker = "Cancelled"]

\* stop() on a running sink: up to await self._queue.join(), which returns at
\* once when no task is unfinished; then the worker is cancelled
SinkStop ==
    /\ sink.start = "Started"
    /\ sink.stop = "NotCalled"
    /\ sink.running
    /\ LET s == [sink EXCEPT !.running = FALSE]
       IN  IF s.unfinished = 0
           THEN SinkStep([CancelWorker(s) EXCEPT !.stop = "Stopped"])
           ELSE SinkStep([s EXCEPT !.stop = "Joining"])

\* join() returns: every message put has been marked task_done
SinkJoined ==
    /\ sink.stop = "Joining"
    /\ sink.unfinished = 0
    /\ SinkStep([CancelWorker(sink) EXCEPT !.stop = "Stopped"])

\* the worker task runs for the first time
WorkerBegin ==
    /\ sink.worker = "Created"
    /\ SinkStep(LoopTest(sink))

\* queue.get() returns a message: batch.append, task_done, flush check;
\* flush_interval may have passed meanwhile
WorkerGet(elapsed) ==
    /\ sink.worker = "Waiting"
    /\ sink.queue # << >>
    /\ SinkStep(Check([sink EXCEPT !.batch = Append(@, Head(sink.queue)),
                                   !.queue = Tail(@),
                                   !.unfinished = @ - 1,
                                   !.elapsed = @ \/ elapsed]))

\* asyncio.TimeoutError after flush_interval: flush check
WorkerTimeout ==
    /\ sink.worker = "Waiting"
    /\ sink.queue = << >>
    /\ SinkStep(Check([sink EXCEPT !.elapsed = TRUE]))

\* _send_batch returns (ok) or raises: record_success / record_failure
WorkerSendDone(ok) ==
    /\ sink.worker = "Sending"
    /\ LET s == [sink EXCEPT !.sendlog[Len(sink.sendlog)].result = IF ok THEN "ok" ELSE "raised"]
       IN  IF ok
           THEN SinkStep(AfterFlush([s EXCEPT !.logs_sent = @ + 1]))
           ELSE IF MoreAttempts(s.attempt, s.config.max_retries)
           THEN SinkStep([s EXCEPT !.logs_failed = @ + 1, !.worker = "Sleeping"])
           ELSE SinkStep(AfterFlush([s EXCEPT !.logs_failed = @ + 1]))

\* the retry delay is over: the next attempt
WorkerRetry ==
    /\ sink.worker = "Sleeping"
    /\ SinkStep(CallSend(sink, sink.attempt + 1))

SinkStartAny == \E init \in {"returns", "raises", "suspends"} : SinkStart(init)
InitDoneAny == \E ok \in BOOLEAN : SinkInitDone(ok)
WorkerGetAny == \E elapsed \in BOOLEAN : WorkerGet(elapsed)
WorkerSendDoneAny == \E ok \in BOOLEAN : WorkerSendDone(ok)

\* the steps of the background worker
WorkerNext == WorkerBegin \/ WorkerGetAny \/ WorkerTimeout \/ WorkerSendDoneAny \/ WorkerRetry

NextSink ==
    SinkStartAny \/ InitDoneAny \/ SinkWrite \/ SinkStop \/ SinkJoined
        \/ WorkerBegin \/ WorkerGetAny \/ WorkerTimeout \/ WorkerSendDoneAny \/ WorkerRetry

SpecSink == InitSink /\ [][NextSink]_vars

\* the event loop runs the worker task whenever it can run
SpecSinkFair == SpecSink /\ WF_vars(WorkerNext)

TypeOK ==
    /\ pc \in {"NotStarted", "Yielded", "Running", "Finished", "Errored", "Raised", "Exhausted",
               "Closed"}
    /\ Len(out) = Len(outSrc)
    /\ Len(rawlog) = Len(trlog)

\* ============================================================ properties
IsTerminal(ev) == ev.type \in TerminalTypes

\* positions of out that hold the events produced from the k-th raw event
OutIdx(k) == { p \in 1..Len(out) : outSrc[p] = k }

\* the translation of the k-th raw event has been forwarded to its end
Forwarded(k) == k < Len(rawlog) \/ pc # "Yielded"

\* the generator has ended: it returned or raised to the consumer
Ended == pc \in {"Exhausted", "Raised"}

\* C1 (as claimed): in every run the consumer pulls to the end, the first
\* protocol event is run-started, the last is run-finished or run-error, there
\* is exactly one terminal event and nothing follows it.
C1_Envelope ==
    /\ \A p \in 1..(Len(out) - 1) : ~IsTerminal(out[p])
    /\ Ended => /\ out # << >>
                /\ out[1].type = "RUN_STARTED"
                /\ IsTerminal(out[Len(out)])

\* C3: protocol events of an earlier raw event precede those of a later one,
\* and the events of one raw event are forwarded completely, in the order the
\* translation produced them, before the next raw event is read.
C3_Ordering ==
    /\ \A p, q \in 1..Len(out) :
          (p < q /\ outSrc[p] # 0 /\ outSrc[q] # 0) => outSrc[p] <= outSrc[q]
    /\ \A k \in 1..Len(rawlog) :
          LET idx == OutIdx(k)
              n == Cardinality(idx)
          IN  /\ n <= Len(trlog[k].events)
              /\ Forwarded(k) => n = Len(trlog[k].events)
              /\ \A p \in idx :
                    LET pos == Cardinality({ q \in idx : q <= p })
                    IN  /\ pos <= Len(trlog[k].events)
                        /\ out[p] = trlog[k].events[pos]
    /\ pc = "Running" => pending = << >>

\* two raw events in a row that produced protocol events, all forwarded
C3_Witness ==
    /\ Len(rawlog) >= 2
    /\ Len(trlog[1].events) = 2
    /\ Len(trlog[2].events) >= 1
    /\ Cardinality(OutIdx(1)) = 2
    /\ OutIdx(2) # {}
    /\ pc = "Running"

\* C4 (as claimed): when the upstream raises, the run ends with exactly one
\* run-error carrying the text of the exception, and no run-finished.
C4_UpstreamFailure ==
    upstreamErr # "" =>
        /\ pc \in {"Errored", "Exhausted"}
        /\ out # << >>
        /\ out[Len(out)] = RunErrorEvent(upstreamErr)
        /\ \A p \in 1..(Len(out) - 1) : ~IsTerminal(out[p])

\* C5 (as claimed): a raw event whose translation raises is skipped; it never
\* ends the run, and a run whose upstream completes ends with run-finished
\* and holds no run-error.
C5_PerEventFailureNotFatal ==
    (upstreamErr = "" /\ \E k \in 1..Len(trlog) : trlog[k].exc # "none") =>
        /\ pc # "Raised"
        /\ \A p \in 1..Len(out) : out[p].type # "RUN_ERROR"
        /\ pc = "Exhausted" => out[Len(out)].type = "RUN_FINISHED"

\* C6 (as claimed): pulling from the adapter's output never raises to the
\* consumer, whatever the upstream and the translation do.
C6_NoRawException == pc # "Raised"

\* ---------------------------------------------------- tool-call history
\* tool name of the k-th raw event, as the translator reads it
ToolNameAt(k) == NameOr(rawlog[k], "unknown")

IsStart(k, n) == rawlog[k].event = "on_tool_start" /\ ToolNameAt(k) = n
IsEnd(k, n) == rawlog[k].event = "on_tool_end" /\ ToolNameAt(k) = n

AllToolNames == ToolNames \cup {"unknown"}

\* call_id carried by the tool-call-started event that the k-th raw event
\* (a tool-start) put in the output
StartedId(k) ==
    out[CHOOSE p \in OutIdx(k) : out[p].type = "TOOL_CALL_START"].id

\* call_id that end_call returned to the k-th raw event (a tool-end), as the
\* output shows it: the id of its tool-call-ended event, NoId when it emitted nothing
EndedId(k) ==
    IF \E p \in OutIdx(k) : out[p].type = "TOOL_CALL_END"
    THEN out[CHOOSE p \in OutIdx(k) : out[p].type = "TOOL_CALL_END"].id
    ELSE NoId

\* no translation of the run raised
NoRaise == \A k \in 1..Len(trlog) : trlog[k].exc = "none"

\* tool calls open at the same time have distinct names: between two
\* tool-starts of one name there is a tool-end of that name
NoOverlap ==
    \A n \in AllToolNames : \A i, j \in 1..Len(rawlog) :
        (i < j /\ IsStart(i, n) /\ IsStart(j, n)) => \E k \in (i + 1)..(j - 1) : IsEnd(k, n)

OrphanEndStep ==
    /\ Len(rawlog') = Len(rawlog) + 1
    /\ rawlog'[Len(rawlog')].event = "on_tool_end"
    /\ NameOr(rawlog'[Len(rawlog')], "unknown") \notin DOMAIN active_calls

\* C7: a tool-end whose name has no open record produces no protocol event,
\* leaves the tracker unchanged and does not end the run: the adapter goes on
\* to await the upstream, and a run of orphan ends only ends with run-finished.
C7_OrphanEndSilent ==
    /\ [][OrphanEndStep =>
            /\ out' = out
            /\ active_calls' = active_calls
            /\ pending' = << >>
            /\ pendingExc' = "none"
            /\ pc' = "Running"]_vars
    /\ []((pc = "Exhausted" /\ upstreamErr = "" /\ rawlog # << >>
            /\ \A k \in 1..Len(rawlog) : rawlog[k].event = "on_tool_end") =>
          out = << RunStartedEvent(effective_thread_id(task), task.id),
                   RunFinishedEvent(effective_thread_id(task), task.id) >>)

\* a tool-end after its call was already ended, in a run that then finished
C7_Witness ==
    /\ Len(rawlog) = 3
    /\ IsStart(1, "search") /\ IsEnd(2, "search") /\ IsEnd(3, "search")
    /\ trlog[2].events # << >>
    /\ trlog[3].events = << >>
    /\ pc = "Exhausted"
    /\ out[Len(out)].type = "RUN_FINISHED"

\* the raw event read in this step has a kind outside the enumeration
UnknownKindStep ==
    /\ Len(rawlog') = Len(rawlog) + 1
    /\ rawlog'[Len(rawlog')].event # ABSENT
    /\ rawlog'[Len(rawlog')].event \notin LangGraphEventType

\* C8: a raw event of an unknown kind produces no protocol event, leaves the
\* tracker unchanged, raises nothing and does not end the run.
C8_UnknownKindSilent ==
    [][UnknownKindStep =>
         /\ out' = out
         /\ active_calls' = active_calls
         /\ pending' = << >>
         /\ pendingExc' = "none"
         /\ trlog'[Len(trlog')].exc = "none"
         /\ pc' = "Running"]_vars

\* an unknown kind read while a tool call is open, in a run that then finished
C8_Witness ==
    /\ Len(rawlog) >= 2
    /\ IsStart(1, "search")
    /\ rawlog[2].event = "unknown_event_type"
    /\ DOMAIN active_calls = {"search"}
    /\ pc = "Exhausted"
    /\ out[Len(out)].type = "RUN_FINISHED"

\* number of raw events among the first m that satisfy Is(_, n)
RECURSIVE CountStarts(_, _), CountEnds(_, _)
CountStarts(m, n) == IF m = 0 THEN 0 ELSE CountStarts(m - 1, n) + (IF IsStart(m, n) THEN 1 ELSE 0)
CountEnds(m, n) == IF m = 0 THEN 0 ELSE CountEnds(m - 1, n) + (IF IsEnd(m, n) THEN 1 ELSE 0)

\* for each name as many tool-ends as tool-starts, each tool-end after its tool-start
Balanced ==
    \A n \in AllToolNames :
        /\ CountStarts(Len(rawlog), n) = CountEnds(Len(rawlog), n)
        /\ \A m \in 1..Len(rawlog) : CountEnds(m, n) <= CountStarts(m, n)

\* C9 (as claimed): in a finished run with as many tool-ends as tool-starts
\* per name, each after its tool-start, every call_id of a tool-call-started
\* is carried by exactly one later tool-call-ended and one later
\* tool-call-result, also when calls of one name overlap.
C9_SameNameMatched ==
    (Balanced /\ NoRaise /\ pc \in {"Finished", "Exhausted"}) =>
        \A p \in 1..Len(out) :
            out[p].type = "TOOL_CALL_START" =>
                /\ Cardinality({ q \in (p + 1)..Len(out) :
                        out[q].type = "TOOL_CALL_END" /\ out[q].id = out[p].id }) = 1
                /\ Cardinality({ q \in (p + 1)..Len(out) :
                        out[q].type = "TOOL_CALL_RESULT" /\ out[q].id = out[p].id }) = 1

\* C10: one open record per name; after two start_call(n) with no end_call(n)
\* in between the record of n holds the second call_id, the next end_call(n)
\* returns the second call_id and the one after it returns absent, and no
\* end_call ever returns the first call_id.
C10_SameNameOverwrite ==
    /\ DOMAIN active_calls \subseteq AllToolNames
    /\ \A n \in DOMAIN active_calls : active_calls[n] # NoId
    /\ \A n \in AllToolNames : \A i, j \in 1..Len(rawlog) :
          (i < j /\ IsStart(i, n) /\ IsStart(j, n)
             /\ \A m \in (i + 1)..(j - 1) : ~IsEnd(m, n)) =>
                /\ StartedId(i) # StartedId(j)
                /\ \A k \in 1..Len(rawlog) :
                      rawlog[k].event = "on_tool_end" => EndedId(k) # StartedId(i)
                /\ (\A m \in (j + 1)..Len(rawlog) : ~IsStart(m, n) /\ ~IsEnd(m, n)) =>
                      get_call_id(active_calls, n) = StartedId(j)
                /\ \A k \in (j + 1)..Len(rawlog) :
                      (IsEnd(k, n) /\ \A m \in (j + 1)..(k - 1) : ~IsStart(m, n) /\ ~IsEnd(m, n)) =>
                          /\ EndedId(k) = StartedId(j)
                          /\ get_call_id(active_calls, n) = NoId
                                \/ \E m \in (k + 1)..Len(rawlog) : IsStart(m, n)
                          /\ \A l \in (k + 1)..Len(rawlog) :
                                (IsEnd(l, n) /\ \A m \in (k + 1)..(l - 1) : ~IsStart(m, n)) =>
                                    EndedId(l) = NoId

\* start, start, end, end of one name: the second id is returned, then absent
C10_Witness ==
    /\ Len(rawlog) = 4
    /\ IsStart(1, "search") /\ IsStart(2, "search")
    /\ IsEnd(3, "search") /\ IsEnd(4, "search")
    /\ NoRaise
    /\ EndedId(3) = StartedId(2)
    /\ EndedId(4) = NoId
    /\ pc = "Running"

\* ------------------------------------------------------ run-started first
\* a step in which the adapter iterates the upstream: it reads a raw event,
\* finds the upstream exhausted, or receives the exception the upstream raises
UpstreamReadStep ==
    \/ rawlog' # rawlog
    \/ upstreamErr' # upstreamErr
    \/ (pc = "Running" /\ pc' = "Finished")

\* C11: the upstream is read for the first time only after run-started has
\* been handed to the consumer: whenever the adapter iterates the upstream,
\* run-started is already the first protocol event the consumer holds.
C11_RunStartedBeforeFirstRead ==
    [][UpstreamReadStep => (out # << >> /\ out[1] = RunStartedEvent(out[1].body, task.id))]_vars

\* the translator-based adapter has read a raw event after run-started
C11_Witness ==
    /\ variant = "agui"
    /\ Len(rawlog) = 1
    /\ Len(out) = 1
    /\ out[1].type = "RUN_STARTED"
    /\ pc = "Running"

\* ------------------------------------------------------------ run identity
\* the thread id the caller supplied, if any (an empty one counts as none)
SuppliedThreadId(t) == IF t.thread_id \in {PyNone, ""} THEN PyNone ELSE t.thread_id

\* C12: run-started and run-finished of a run carry the same run_id, the task
\* id, and the same thread_id, the thread id the caller supplied or else the
\* run_id; the task, hence both values, never changes during the run.
C12_RunIdentity ==
    /\ [](\A p \in 1..Len(out) :
            out[p].type \in {"RUN_STARTED", "RUN_FINISHED"} =>
                /\ out[p].name = task.id
                /\ out[p].body = (IF SuppliedThreadId(task) = PyNone
                                  THEN task.id ELSE SuppliedThreadId(task)))
    /\ [][task' = task]_vars

\* a completed run with a caller-supplied thread id
C12_Witness ==
    /\ pc = "Exhausted"
    /\ task.thread_id = "thread1"
    /\ Len(rawlog) >= 1
    /\ out[1] = RunStartedEvent("thread1", "run1")
    /\ out[Len(out)] = RunFinishedEvent("thread1", "run1")

\* ---------------------------------------------------- tracker reference
\* the start_call and end_call operations on tool name n among the first k
OpsOn(k, n) == { i \in 1..k : oplog[i].name = n /\ oplog[i].op \in {"start_call", "end_call"} }

\* the id returned by the latest start_call(n) among the first k operations
\* that no end_call(n) has followed; NoId when there is none
OpenId(k, n) ==
    IF OpsOn(k, n) = {} THEN NoId
    ELSE LET i == CHOOSE i \in OpsOn(k, n) : \A j \in OpsOn(k, n) : j <= i
         IN  IF oplog[i].op = "start_call" THEN oplog[i].ret ELSE NoId

\* C13: after any sequence of tracker operations get_call_id(n) is the id of
\* the latest start_call(n) no end_call(n) has followed, absent otherwise;
\* every end_call and get_call_id returned that value at its time, so that a
\* repeated end_call or get_call_id after an end_call returned absent; and
\* get_call_id leaves the tracker as it was.
C13_TrackerReference ==
    /\ [](/\ DOMAIN active_calls = { n \in ToolNames : OpenId(Len(oplog), n) # NoId }
          /\ \A n \in DOMAIN active_calls : active_calls[n] = OpenId(Len(oplog), n)
          /\ \A k \in 1..Len(oplog) :
                /\ oplog[k].op \in {"end_call", "get_call_id"} =>
                       oplog[k].ret = OpenId(k - 1, oplog[k].name)
                /\ (k > 1 /\ oplog[k - 1].op = "end_call" /\ oplog[k].name = oplog[k - 1].name
                          /\ oplog[k].op # "start_call") => oplog[k].ret = NoId)
    /\ [][(Len(oplog') > Len(oplog) /\ oplog'[Len(oplog')].op = "get_call_id")
              => active_calls' = active_calls]_vars

\* start, get, end, then a repeated end and a get of the same name
C13_Witness ==
    /\ Len(oplog) = 5
    /\ oplog[1] = Op("start_call", "search", 1)
    /\ oplog[2] = Op("get_call_id", "search", 1)
    /\ oplog[3] = Op("end_call", "search", 1)
    /\ oplog[4] = Op("end_call", "search", NoId)
    /\ oplog[5] = Op("get_call_id", "search", NoId)

\* -------------------------------------------------------- call id unique
\* C14: the call_ids of the tool-call-started events of a run are pairwise
\* distinct, also when the calls carry the same tool name.
C14_CallIdsUnique ==
    \A p, q \in 1..Len(out) :
        (p < q /\ out[p].type = "TOOL_CALL_START" /\ out[q].type = "TOOL_CALL_START")
            => out[p].id # out[q].id

\* three calls were started, two of them of the same tool
C14_Witness ==
    /\ Len(rawlog) >= 3
    /\ \A k \in 1..3 : rawlog[k].event = "on_tool_start" /\ trlog[k].events # << >>
    /\ rawlog[1].name = "search"
    /\ rawlog[2].name = "calc"
    /\ rawlog[3].name = "search"
    /\ Cardinality({ out[p].id : p \in { q \in 1..Len(out) : out[q].type = "TOOL_CALL_START" } }) = 3

\* --------------------------------------------------------- run isolation
\* what a run alone yields for the first k raw events of log: own tracker,
\* uuids drawn by nobody else
RECURSIVE Alone(_, _)
Alone(log, k) ==
    IF k = 0
    THEN [calls |-> << >>, nid |-> 0, out |-> << >>]
    ELSE LET st == Alone(log, k - 1)
             res == translate_event(variant, log[k], st.calls, st.nid)
         IN  [calls |-> res.calls, nid |-> res.nid, out |-> st.out \o res.events]

\* a protocol-event sequence with its call_ids renamed to 1, 2, ... in the
\* order of their values
CallIds(o) == { o[p].id : p \in 1..Len(o) } \ {NoId}
Canon(o) ==
    [p \in 1..Len(o) |->
        [o[p] EXCEPT !.id = IF @ = NoId THEN NoId
                           ELSE Cardinality({ i \in CallIds(o) : i <= @ })]]

\* C15: concurrent runs share no tracker: a raw event read by one run leaves
\* the tracker of every other run as it was, and in every interleaving the
\* output of each run is the output of the same run alone, up to the choice
\* of the call_ids.
C15_RunsIsolated ==
    /\ [](\A r \in Runs : Canon(runs[r].out) = Canon(Alone(runs[r].log, Len(runs[r].log)).out))
    /\ [][\A r \in Runs : runs'[r] = runs[r] => trackers'[r] = trackers[r]]_vars

\* both runs call the same tool; the second run starts its call while the
\* call of the first is open, and each tool-end resolves to its own run's id
C15_Witness ==
    /\ \A r \in Runs :
          /\ Len(runs[r].log) = 2
          /\ runs[r].log[1] = Raw("on_tool_start", "search", Data(DICT_QX, ABSENT, ABSENT, ABSENT, ABSENT))
          /\ runs[r].log[2] = Raw("on_tool_end", "search", Data(ABSENT, DICT_R, ABSENT, ABSENT, ABSENT))
          /\ Len(runs[r].out) = 4
          /\ \A p \in 1..4 : runs[r].out[p].id = r
    /\ runs[1].at = << 1, 3 >>
    /\ runs[2].at = << 2, 4 >>

\* ----------------------------------------------------------- cancellation
\* C16 (as claimed): when the consumer closes the output while the run is
\* Running, the upstream iterator is closed with it, and from then on no raw
\* event is read and no protocol event, terminal or other, is emitted.
C16_Cancellation ==
    /\ []((pc = "Closed" /\ rawlog # << >>) => upstreamClosed)
    /\ [][(pc' = "Closed") => (out' = out /\ rawlog' = rawlog)]_vars

\* ----------------------------------------------------------- backpressure
\* C17: the protocol events translated from the current raw event and not yet
\* pulled are fewer than that raw event produces, they exist only while the
\* consumer holds an earlier event of the same raw event, and a raw event is
\* read only when every protocol event of all earlier ones has been pulled.
C17_Backpressure ==
    /\ [](pending # << >> =>
            /\ pc = "Yielded"
            /\ rawlog # << >>
            /\ Len(pending) + Cardinality(OutIdx(Len(rawlog))) = Len(trlog[Len(rawlog)].events)
            /\ Len(pending) < Len(trlog[Len(rawlog)].events))
    /\ [][rawlog' # rawlog =>
            /\ pending = << >>
            /\ \A k \in 1..Len(rawlog) : Cardinality(OutIdx(k)) = Len(trlog[k].events)]_vars

\* the second raw event was read after both events of the first were pulled;
\* the consumer holds its first event and its second is still to be pulled
C17_Witness ==
    /\ Len(rawlog) = 2
    /\ Len(trlog[1].events) = 2
    /\ Cardinality(OutIdx(1)) = 2
    /\ Len(trlog[2].events) = 2
    /\ Cardinality(OutIdx(2)) = 1
    /\ Len(pending) = 1
    /\ pc = "Yielded"

\* ---------------------------------------------------------- tool-end rule
\* the content a tool-call-result carries for a tool output json.dumps accepts
ExpectedContent(output) ==
    CASE output \in {ABSENT, PyNone} -> ""
      [] output = DICT_R -> "{\"r\": [1, 2]}"
      [] output = DICT_QX -> "{\"q\": \"x\"}"
      [] output = EMPTY_DICT -> "{}"

C19_ChainRule ==
    /\ [](\A k \in 1..Len(rawlog) :
            /\ rawlog[k].event = "on_chain_start" =>
                  trlog[k] = [events |-> << Proto("THINKING_START", NoId,
                                                  IF rawlog[k].name = ABSENT THEN "Unknown"
                                                  ELSE rawlog[k].name, "") >>,
                              exc |-> "none"]
            /\ rawlog[k].event = "on_chain_end" =>
                  trlog[k] = [events |-> << Proto("THINKING_END", NoId, "", "") >>,
                              exc |-> "none"])
    /\ [][(rawlog' # rawlog /\ rawlog'[Len(rawlog')].event \in {"on_chain_start", "on_chain_end"})
              => (active_calls' = active_calls /\ nextId' = nextId)]_vars

\* ----------------------------------------------------- custom-event filter
\* the adapter reads a custom-event raw event in this step
CustomEventStep == rawlog' # rawlog /\ rawlog'[Len(rawlog')].event = "on_custom_event"

\* C20: a custom-event raw event produces exactly one custom{name, value}
\* event, name and value being the name and payload inside its data, when its
\* top-level name is the internal marker, and the consumer receives it; any
\* other custom-event produces nothing and the run goes on; the output holds
\* no custom event that does not come from a marked raw event.
C20_CustomEventFilter ==
    /\ [][CustomEventStep =>
            LET e == rawlog'[Len(rawlog')]
            IN  /\ trlog'[Len(trlog')].exc = "none"
                /\ active_calls' = active_calls
                /\ IF e.name = "agent_custom_event"
                   THEN /\ trlog'[Len(trlog')].events =
                               << Proto("CUSTOM", NoId, e.data.name, e.data.payload) >>
                        /\ out' = Append(out, Proto("CUSTOM", NoId, e.data.name, e.data.payload))
                   ELSE /\ trlog'[Len(trlog')].events = << >>
                        /\ out' = out
                        /\ pc' = "Running"]_vars
    /\ [](\A p \in 1..Len(out) :
            out[p].type = "CUSTOM" =>
                /\ outSrc[p] >= 1
                /\ rawlog[outSrc[p]].event = "on_custom_event"
                /\ rawlog[outSrc[p]].name = "agent_custom_event")

\* an unmarked custom event was dropped, a marked one forwarded, and the run
\* completed
C20_Witness ==
    /\ Len(rawlog) = 2
    /\ rawlog[1] = Raw("on_custom_event", "unrelated_marker",
                        Data(ABSENT, ABSENT, ABSENT, "chart_generated", DICT_QX))
    /\ rawlog[2] = Raw("on_custom_event", INTERNAL_EVENT_MARKER,
                        Data(ABSENT, ABSENT, ABSENT, "chart_generated", DICT_QX))
    /\ Len(out) = 3
    /\ out[2] = CustomEvent("chart_generated", DICT_QX)
    /\ out[3].type = "RUN_FINISHED"

\* --------------------------------------------------------- reserved kinds
\* the enumerated kinds the translator has no branch for
ReservedKinds ==
    { "on_chat_model_start", "on_chat_model_end", "on_chain_stream",
      "on_llm_start", "on_llm_stream", "on_llm_end",
      "on_retriever_start", "on_retriever_end" }

\* C21: a raw event of a reserved kind is accepted: its translation returns
\* without an exception and without a protocol event, the tracker and the
\* output stay as they were and the run goes on; and the tracker changes only
\* in steps that read a tool-start or a tool-end.
C21_ReservedKinds ==
    /\ [][(rawlog' # rawlog /\ rawlog'[Len(rawlog')].event \in ReservedKinds) =>
            /\ trlog'[Len(trlog')] = [events |-> << >>, exc |-> "none"]
            /\ active_calls' = active_calls
            /\ nextId' = nextId
            /\ out' = out
            /\ pc' = "Running"]_vars
    /\ [][active_calls' # active_calls =>
            /\ rawlog' # rawlog
            /\ rawlog'[Len(rawlog')].event \in {"on_tool_start", "on_tool_end"}]_vars

\* a reserved event was read while a tool call was open, the call was ended
\* afterwards with the id it was started with, and the run completed
C21_Witness ==
    /\ Len(rawlog) = 3
    /\ rawlog[1].event = "on_tool_start"
    /\ rawlog[2].event = "on_retriever_end"
    /\ rawlog[3].event = "on_tool_end"
    /\ Len(out) = 6
    /\ out[4] = ToolCallEndEvent(1)
    /\ out[6].type = "RUN_FINISHED"

\* --------------------------------------------------------------- BaseSink
\* the messages write() accepted, and the messages passed to _send_batch
Accepted == { m \in 1..Len(sink.writes) : sink.writes[m] = "accepted" }
InBatch(i) == { sink.sendlog[i].batch[j] : j \in 1..Len(sink.sendlog[i].batch) }
Handed == UNION { InBatch(i) : i \in 1..Len(sink.sendlog) }

\* C22 (as claimed): when stop() has returned, every message write() accepted
\* has been passed to _send_batch, whatever batch_size and flush_interval are.
C22_GracefulShutdown == sink.stop = "Stopped" => Accepted \subseteq Handed

\* the calls of _send_batch made for the batch of call i
CallsFor(i) == { j \in 1..Len(sink.sendlog) : sink.sendlog[j].batch = sink.sendlog[i].batch }

\* call i was the last attempt allowed for its batch, and it failed
GaveUp(i) ==
    /\ sink.sendlog[i].result = "raised"
    /\ sink.sendlog[i].attempt = sink.config.max_retries

\* C23: for one batch _send_batch is called at most max_retries + 1 times,
\* attempts are numbered from 0 and follow one another, no call follows a
\* success for the same batch, and once every attempt has failed the batch is
\* dropped without an exception: the worker is back in its loop (waiting,
\* ended, or cancelled by stop) with none of the batch's messages pending.
C23_BoundedRetry ==
    sink.used =>
        /\ \A i \in 1..Len(sink.sendlog) :
              /\ sink.sendlog[i].attempt <= sink.config.max_retries
              /\ Cardinality(CallsFor(i)) <= sink.config.max_retries + 1
              /\ \A j \in CallsFor(i) :
                    j > i => /\ sink.sendlog[i].result = "raised"
                             /\ sink.sendlog[j].attempt > sink.sendlog[i].attempt
        /\ \A i \in 1..Len(sink.sendlog) :
              GaveUp(i) =>
                  /\ InBatch(i) \cap { sink.batch[k] : k \in 1..Len(sink.batch) } = {}
                  /\ i = Len(sink.sendlog) => sink.worker \in {"Waiting", "Done", "Cancelled"}

\* a batch was given up after a retry, and a later batch was sent
C23_Witness ==
    /\ sink.used
    /\ sink.config.max_retries = 1
    /\ \E i, j \in 1..Len(sink.sendlog) :
          /\ i < j
          /\ GaveUp(i)
          /\ sink.sendlog[j].result = "ok"

\* a write() made once start() has failed
WriteAfterFailedStart ==
    /\ sink.used
    /\ sink.start = "Failed"
    /\ Len(sink'.writes) > Len(sink.writes)

\* C24: when _initialize_connection raises during start() (start() raising
\* SinkConnectionError is the state "Failed"), the sink is not running and
\* exactly one connection error is recorded; every write() made afterwards is
\* discarded; and eventually the background worker task has ended.
C24_FailedStart ==
    /\ [](sink.used /\ sink.start = "Failed" =>
              ~sink.running /\ sink.connection_errors = 1)
    /\ [][WriteAfterFailedStart =>
              /\ sink'.writes[Len(sink'.writes)] = "discarded"
              /\ sink'.queue = sink.queue
              /\ sink'.logs_failed = sink.logs_failed]_vars
    /\ (sink.used /\ sink.start = "Failed") ~> (sink.worker = "Done")

\* start() failed after messages had been accepted while the connection was
\* being initialized; the worker sent them and ended, a later write was
\* discarded
C24_Witness ==
    /\ sink.used
    /\ sink.start = "Failed"
    /\ sink.worker = "Done"
    /\ Len(sink.writes) >= 2
    /\ sink.writes[1] = "accepted"
    /\ sink.writes[Len(sink.writes)] = "discarded"
    /\ Len(sink.sendlog) > 0

\* the elements of a sequence of messages
Elems(q) == { q[k] : k \in 1..Len(q) }

\* a sequence of messages in the order they were written
Increasing(q) == \A k \in 1..(Len(q) - 1) : q[k] < q[k + 1]

\* a write() and what it did: discarded while the sink is not running, with
\* no state changed (writes is the record of the calls); dropped with exactly
\* one failure recorded while the queue holds queue_size >= 1 messages;
\* appended at the tail of the queue otherwise
WriteRule ==
    (sink.used /\ Len(sink'.writes) > Len(sink.writes)) =>
        LET message == Len(sink'.writes)
            outcome == sink'.writes[message]
        IN  IF ~sink.running \/ sink.start = "NotCalled"
            THEN /\ outcome = "discarded"
                 /\ sink' = [sink EXCEPT !.writes = Append(@, "discarded")]
            ELSE IF sink.config.queue_size >= 1 /\ Len(sink.queue) >= sink.config.queue_size
            THEN /\ outcome = "dropped"
                 /\ sink' = [sink EXCEPT !.writes = Append(@, "dropped"),
                                         !.logs_failed = @ + 1]
            ELSE /\ outcome = "accepted"
                 /\ sink'.queue = Append(sink.queue, message)
                 /\ sink'.logs_failed = sink.logs_failed

\* accepted messages reach _send_batch in the order they were written, each
\* in at most one batch (a retry passes the same batch again)
SentInOrder ==
    sink.used =>
        /\ Increasing(sink.queue) /\ Increasing(sink.batch)
        /\ Elems(sink.queue) \cup Elems(sink.batch) \cup Handed \subseteq Accepted
        /\ \A a \in Elems(sink.batch) \cup Handed : \A b \in Elems(sink.queue) : a < b
        /\ \A i \in 1..Len(sink.sendlog) :
              /\ Increasing(sink.sendlog[i].batch)
              /\ \A j \in 1..Len(sink.sendlog) :
                    i < j => \/ sink.sendlog[j].batch = sink.sendlog[i].batch
                             \/ \A a \in InBatch(i) : \A b \in InBatch(j) : a < b

\* the queue holds no more than queue_size messages
QueueWithin(s) == s.used => Len(s.queue) <= s.config.queue_size

\* C29 (as claimed): write never blocks and never raises, the queue never
\* holds more than queue_size messages, a write while the sink is not running
\* is discarded and changes no state, a write on a full queue is dropped with
\* exactly one failure recorded, every other write is appended at the tail,
\* and accepted messages are handed to _send_batch in writing order, each in
\* at most one batch.
C29_WriteBounded ==
    [][/\ QueueWithin(sink) /\ QueueWithin(sink')
       /\ WriteRule
       /\ SentInOrder /\ SentInOrder']_vars

\* C29 (amended): as claimed, but the queue is bounded by queue_size only
\* when queue_size >= 1; with queue_size = 0 the queue is unbounded and a
\* write on a running sink is always accepted.
C29_WriteBoundedPositive ==
    [][/\ (sink.used /\ sink.config.queue_size >= 1 =>
              QueueWithin(sink) /\ QueueWithin(sink'))
       /\ WriteRule
       /\ SentInOrder /\ SentInOrder']_vars

\* with queue_size = 1: a write was dropped on the full queue, and the two
\* accepted messages were sent, each call of _send_batch succeeding
C29_Witness ==
    /\ sink.used
    /\ sink.config.queue_size = 1
    /\ \E k \in 1..Len(sink.writes) : sink.writes[k] = "dropped"
    /\ sink.logs_failed = 1
    /\ Cardinality(Accepted) = 2
    /\ Handed = Accepted
    /\ \A i \in 1..Len(sink.sendlog) : sink.sendlog[i].result = "ok"

\* ----------------------------------------------------------- LLMFactory
\* threads calling the factory, and the registered model ids
Threads == {1, 2}
ModelIds == {"gpt", "glm"}

\* LLMFactory after __init__ and register_config: lock is the thread holding
\* _lock (0: free), _clients[m] the cached instance (0: m not in _clients),
\* created the model ids instances were created for, returned the results
\* of the calls; overlapped tells that a call began while another was under way
LLMFactory ==
    [used |-> TRUE, lock |-> 0, _clients |-> [m \in ModelIds |-> 0],
     created |-> << >>, calls |-> 0, returned |-> << >>,
     th |-> [t \in Threads |-> [pc |-> "idle", model_id |-> "gpt", overlapped |-> FALSE]]]

InitFactory ==
    /\ InitAdapter
    /\ variant = "sse"
    /\ task.thread_id = PyNone
    /\ sink = Unused
    /\ factory = LLMFactory
    /\ snow = Unused
    /\ llm = Unused

\* a step of a thread in the factory: nothing else changes
FactoryStep(f) ==
    /\ factory' = f
    /\ UNCHANGED << adapterVars, upstreamClosed, oplog, trackers, runs, sink, snow, llm >>

\* a thread calls get_llm_client(model_id)
get_llm_client(t, model_id) ==
    /\ factory.th[t].pc = "idle"
    /\ factory.calls < MaxCalls
    /\ FactoryStep([factory EXCEPT
           !.calls = @ + 1,
           !.th[t] = [pc |-> "with", model_id |-> model_id,
                      overlapped |-> \E u \in Threads : factory.th[u].pc # "idle"]])

LockFree_ignored(f) == TRUE

\* threading.Lock.acquire succeeds only while no thread holds the lock
LockFree(f) == f.lock = 0

\* with self._lock: the thread enters once it holds the lock
LockAcquire(t) ==
    /\ factory.th[t].pc = "with"
    /\ LockFree(factory)
    /\ FactoryStep([factory EXCEPT !.lock = t, !.th[t].pc = "test"])

\* if model_id not in self._clients
ClientsTest(t) ==
    /\ factory.th[t].pc = "test"
    /\ FactoryStep([factory EXCEPT
           !.th[t].pc = IF factory._clients[factory.th[t].model_id] = 0
                        THEN "create" ELSE "return"])

\* self._clients[model_id] = self._create_llm_instance(model_id): a new
\* instance is created and stored, or the creation raises, which leaves the
\* with block and releases the lock
_create_llm_instance(t, ok) ==
    /\ factory.th[t].pc = "create"
    /\ LET model_id == factory.th[t].model_id
           instance == Len(factory.created) + 1
       IN  IF ok
           THEN FactoryStep([factory EXCEPT
                    !.created = Append(@, model_id),
                    !._clients[model_id] = instance,
                    !.th[t].pc = "return"])
           ELSE FactoryStep([factory EXCEPT
                    !.lock = IF @ = t THEN 0 ELSE @,
                    !.th[t].pc = "idle"])

\* return self._clients[model_id], leaving the with block
ClientReturn(t) ==
    /\ factory.th[t].pc = "return"
    /\ FactoryStep([factory EXCEPT
           !.returned = Append(@, [thread |-> t, model_id |-> factory.th[t].model_id,
                                   instance |-> factory._clients[factory.th[t].model_id],
                                   overlapped |-> factory.th[t].overlapped]),
           !.lock = IF @ = t THEN 0 ELSE @,
           !.th[t].pc = "idle"])

GetLlmClientAny == \E t \in Threads : \E m \in ModelIds : get_llm_client(t, m)
LockAcquireAny == \E t \in Threads : LockAcquire(t)
ClientsTestAny == \E t \in Threads : ClientsTest(t)
CreateAny == \E t \in Threads : \E ok \in BOOLEAN : _create_llm_instance(t, ok)
ClientReturnAny == \E t \in Threads : ClientReturn(t)

NextFactory ==
    GetLlmClientAny \/ LockAcquireAny \/ ClientsTestAny \/ CreateAny \/ ClientReturnAny

SpecFactory == InitFactory /\ [][NextFactory]_vars

\* C25: under any interleaving of concurrent get_llm_client calls, at most
\* one client instance is created for a model id, and every call for that
\* model id, concurrent or later, returns that instance.
C25_OneClientPerModel ==
    factory.used =>
        /\ \A i, j \in 1..Len(factory.created) :
              factory.created[i] = factory.created[j] => i = j
        /\ \A i \in 1..Len(factory.returned) :
              /\ factory.returned[i].instance \in 1..Len(factory.created)
              /\ factory.created[factory.returned[i].instance] = factory.returned[i].model_id

\* two threads called for the same model id while the other's call was under
\* way, a third call came later, and all three returned
C25_Witness ==
    /\ factory.used
    /\ Len(factory.returned) = 3
    /\ \A i \in 1..3 : factory.returned[i].model_id = "gpt"
    /\ factory.returned[1].thread # factory.returned[2].thread
    /\ factory.returned[2].overlapped
    /\ ~factory.returned[3].overlapped

\* ------------------------------------------------------------ Snowflake
\* a | b on non-negative integers
RECURSIVE BitOr(_, _)
BitOr(a, b) ==
    IF a = 0 THEN b
    ELSE IF b = 0 THEN a
    ELSE (IF a % 2 = 1 \/ b % 2 = 1 THEN 1 ELSE 0) + 2 * BitOr(a \div 2, b \div 2)

\* a << n
ShiftLeft(a, n) == a * 2^n

worker_id_bits == 5
datacenter_id_bits == 5
sequence_bits == 12
sequence_mask == 2^sequence_bits - 1

\* the ids and the start sequences tried: both ends of 0..31, and a counter
\* about to wrap
SnowIds == {0, 1, 31}
StartSequences == {0, sequence_mask - 1}

\* Snowflake.__init__ at clock reading now; the clock is kept in milliseconds
\* since tw_epoch; calls records every generate()
Snowflake(worker_id, datacenter_id, sequence, now) ==
    [used |-> TRUE, worker_id |-> worker_id, datacenter_id |-> datacenter_id,
     sequence |-> sequence, last_timestamp |-> now,
     now |-> now, wentBack |-> FALSE, calls |-> << >>]

InitSnow ==
    /\ InitAdapter
    /\ variant = "sse"
    /\ task.thread_id = PyNone
    /\ sink = Unused
    /\ factory = Unused
    /\ snow \in { Snowflake(w, d, q, n) : w \in SnowIds, d \in SnowIds,
                                          q \in StartSequences, n \in {0, 1} }
    /\ llm = Unused

SnowStep(s) ==
    /\ snow' = s
    /\ UNCHANGED << adapterVars, upstreamClosed, oplog, trackers, runs, sink, factory, llm >>

\* the expression of lines 73-81: << binds tighter than |
make_id(timestamp, datacenter_id, worker_id, sequence) ==
    BitOr(BitOr(BitOr(ShiftLeft(timestamp, worker_id_bits + datacenter_id_bits),
                      ShiftLeft(datacenter_id, worker_id_bits)),
                ShiftLeft(worker_id, sequence_bits)),
          sequence)

\* the result of a generate() that raised ValueError
ValueError == -1

\* generate() with the sequence, timestamp and last_timestamp it ends with
Generated(s, timestamp, sequence) ==
    [s EXCEPT !.sequence = sequence, !.last_timestamp = timestamp, !.now = timestamp,
              !.calls = Append(@, [timestamp |-> s.now,
                                   before |-> << s.sequence, s.last_timestamp >>,
                                   after |-> << sequence, timestamp >>,
                                   result |-> make_id(timestamp, s.datacenter_id,
                                                      s.worker_id, sequence)])]

\* generate(); next is the reading wait_next_millis ends with when it is called
generate(next) ==
    /\ snow.used
    /\ Len(snow.calls) < MaxGenerate
    /\ LET timestamp == snow.now
       IN  IF timestamp < snow.last_timestamp
           THEN /\ next = timestamp
                /\ SnowStep([snow EXCEPT !.calls = Append(@,
                        [timestamp |-> timestamp,
                         before |-> << snow.sequence, snow.last_timestamp >>,
                         after |-> << snow.sequence, snow.last_timestamp >>,
                         result |-> ValueError])])
           ELSE IF timestamp = snow.last_timestamp
           THEN LET sequence == (snow.sequence + 1) % (sequence_mask + 1)
                IN  IF sequence = 0
                    THEN /\ next > snow.last_timestamp
                         /\ SnowStep(Generated(snow, next, sequence))
                    ELSE /\ next = timestamp
                         /\ SnowStep(Generated(snow, timestamp, sequence))
           ELSE /\ next = timestamp
                /\ SnowStep(Generated(snow, timestamp, 0))

\* time passes
ClockTick(d) ==
    /\ snow.used
    /\ snow.now + d <= MaxClock
    /\ SnowStep([snow EXCEPT !.now = @ + d])

\* the clock is set back
ClockBack ==
    /\ snow.used
    /\ snow.now > 0
    /\ SnowStep([snow EXCEPT !.now = @ - 1, !.wentBack = TRUE])

GenerateAny == \E next \in 0..MaxClock : generate(next)
ClockTickAny == \E d \in 1..MaxClock : ClockTick(d)

NextSnow == GenerateAny \/ ClockTickAny \/ ClockBack

SpecSnow == InitSnow /\ [][NextSnow]_vars

\* C26: with a clock that never moves backwards no two generate() calls of
\* one Snowflake return the same id; a generate() that reads a timestamp
\* before last_timestamp raises ValueError and leaves sequence and
\* last_timestamp unchanged.
C26_UniqueIds ==
    snow.used =>
        /\ ~snow.wentBack =>
              \A i, j \in 1..Len(snow.calls) :
                  i # j => snow.calls[i].result # snow.calls[j].result
        /\ \A i \in 1..Len(snow.calls) :
              snow.calls[i].timestamp < snow.calls[i].before[2] =>
                  /\ snow.calls[i].result = ValueError
                  /\ snow.calls[i].after = snow.calls[i].before

\* ----------------------------------------- failed translations, tool output
\* the upstream yielded a raw event whose translation raises
FailedTranslationStep ==
    /\ Len(trlog') = Len(trlog) + 1
    /\ trlog'[Len(trlog')].exc # "none"

\* C27: when the translation of a raw event raises, no protocol event derived
\* from that raw event is in the output and the tracker is as it was before
\* the event: a tool-start whose input cannot be serialized emits nothing and
\* opens no record, a tool-end whose output cannot be serialized emits
\* nothing and keeps the record open.
C27_AllOrNothing ==
    [][FailedTranslationStep =>
          /\ trlog'[Len(trlog')].events = << >>
          /\ \A p \in 1..Len(out') : outSrc'[p] # Len(rawlog')
          /\ active_calls' = active_calls]_vars

\* the event that follows position p of the output: the next one emitted, or
\* the one the suspended translation yields next; none otherwise
Follower(p) ==
    IF p < Len(out) THEN << out[p + 1] >>
    ELSE IF pc = "Yielded" /\ pending # << >> THEN << Head(pending) >>
    ELSE << >>

FollowedBy(p, type) ==
    /\ Follower(p) # << >>
    /\ Follower(p)[1].type = type
    /\ Follower(p)[1].id = out[p].id

\* C28: for every sequence of raw events, every tool-call-ended carries the
\* call_id of an earlier tool-call-started, no call_id is carried by two
\* tool-call-ended events, every tool-call-ended is immediately followed by
\* the tool-call-result with its call_id, and every tool-call-started by the
\* tool-call-args with its call_id.
C28_WellFormedToolOutput ==
    \A p \in 1..Len(out) :
        /\ out[p].type = "TOOL_CALL_END" =>
              /\ \E q \in 1..(p - 1) :
                    out[q].type = "TOOL_CALL_START" /\ out[q].id = out[p].id
              /\ \A q \in 1..Len(out) :
                    (out[q].type = "TOOL_CALL_END" /\ out[q].id = out[p].id) => q = p
              /\ FollowedBy(p, "TOOL_CALL_RESULT")
        /\ out[p].type = "TOOL_CALL_START" => FollowedBy(p, "TOOL_CALL_ARGS")

\* C28 without its two "immediately followed" clauses
ToolEndsWellFormed ==
    \A p \in 1..Len(out) :
        out[p].type = "TOOL_CALL_END" =>
            /\ \E q \in 1..(p - 1) :
                  out[q].type = "TOOL_CALL_START" /\ out[q].id = out[p].id
            /\ \A q \in 1..Len(out) :
                  (out[q].type = "TOOL_CALL_END" /\ out[q].id = out[p].id) => q = p

\* ------------------------------------------------------- plain-LLM path
\* the model's answer to task.query: the content ainvoke returns, and the
\* non-empty chunk contents astream delivers it in
Answer == "Hello!"
AnswerChunks == << "Hel", "lo", "!" >>

\* the pieces a content string consists of
Pieces(content) ==
    CASE content = "" -> << >>
      [] content = Answer -> AnswerChunks
      [] OTHER -> << content >>

\* the agent of a run that is not a compiled graph: phase is where
\* _simple_llm_stream stands, chunks the contents astream has yielded
PlainLLM ==
    [used |-> TRUE, phase |-> "astream", chunks |-> << >>, delivered |-> 0,
     astream |-> "running", ainvoke |-> "not called"]

InitLLM ==
    /\ InitAdapter
    /\ variant = "sse"
    /\ task.thread_id = PyNone
    /\ sink = Unused
    /\ factory = Unused
    /\ snow = Unused
    /\ llm = PlainLLM

\* what the steps of the plain-LLM path leave alone
LLMUnchanged ==
    UNCHANGED << variant, logLevel, task, active_calls, nextId, pending, pendingExc,
                 rawlog, trlog, upstreamErr, upstreamClosed, oplog, trackers, runs,
                 sink, factory, snow >>

\* astream yields a chunk: one with content is forwarded as a text chunk
AstreamChunk(content) ==
    /\ pc = "Running"
    /\ llm.used /\ llm.phase = "astream"
    /\ Len(llm.chunks) < MaxChunks
    /\ \/ content = ""
       \/ /\ llm.delivered < Len(AnswerChunks)
          /\ content = AnswerChunks[llm.delivered + 1]
    /\ llm' = [llm EXCEPT !.chunks = Append(@, content),
                          !.delivered = IF content = "" THEN @ ELSE @ + 1]
    /\ IF content # ""
       THEN /\ Emit(TextMessageChunkEvent(content), 0)
            /\ pc' = "Yielded"
       ELSE UNCHANGED << pc, out, outSrc >>
    /\ LLMUnchanged

\* astream raises: the except branch awaits ainvoke
AstreamRaise ==
    /\ pc = "Running"
    /\ llm.used /\ llm.phase = "astream"
    /\ llm' = [llm EXCEPT !.phase = "ainvoke", !.astream = "raised"]
    /\ UNCHANGED << pc, out, outSrc >>
    /\ LLMUnchanged

\* ainvoke returns the response: its content is yielded as one text chunk
AinvokeReturn ==
    /\ pc = "Running"
    /\ llm.used /\ llm.phase = "ainvoke"
    /\ llm' = [llm EXCEPT !.phase = "fallback", !.ainvoke = "returned"]
    /\ Emit(TextMessageChunkEvent(Answer), 0)
    /\ pc' = "Yielded"
    /\ LLMUnchanged

\* ainvoke raises: raise fallback_e, caught by the outer handler
AinvokeRaise(message) ==
    /\ pc = "Running"
    /\ llm.used /\ llm.phase = "ainvoke"
    /\ llm' = [llm EXCEPT !.phase = "raised", !.ainvoke = "raised"]
    /\ OuterExcept(message)
    /\ LLMUnchanged

\* _simple_llm_stream returns, astream having delivered the answer or the
\* fallback having yielded it: run_finished is yielded
SimpleStreamDone ==
    /\ pc = "Running"
    /\ llm.used
    /\ \/ llm.phase = "astream" /\ llm.delivered = Len(AnswerChunks)
       \/ llm.phase = "fallback"
    /\ llm' = [llm EXCEPT !.phase = "returned",
                          !.astream = IF llm.phase = "astream" THEN "completed" ELSE @]
    /\ Emit(RunFinishedEvent(effective_thread_id(task), task.id), 0)
    /\ pc' = "Finished"
    /\ LLMUnchanged

AstreamChunkAny == \E content \in {"", "Hel", "lo", "!"} : AstreamChunk(content)
AinvokeRaiseAny == \E m \in UpstreamErrors : AinvokeRaise(m)

NextLLM ==
    Start \/ Resume \/ AstreamChunkAny \/ AstreamRaise \/ AinvokeReturn
        \/ AinvokeRaiseAny \/ SimpleStreamDone \/ Exhaust

SpecLLM == InitLLM /\ [][NextLLM]_vars

\* the deltas of the text chunks in a sequence of protocol events
RECURSIVE Deltas(_)
Deltas(events) ==
    IF events = << >> THEN << >>
    ELSE IF Head(events).type = "TEXT_MESSAGE_CHUNK"
    THEN << Head(events).body >> \o Deltas(Tail(events))
    ELSE Deltas(Tail(events))

\* the pieces of text a sequence of contents amounts to
RECURSIVE Text(_)
Text(contents) ==
    IF contents = << >> THEN << >> ELSE Pieces(Head(contents)) \o Text(Tail(contents))

NonEmpty(content) == content # ""

CountType(type) == Cardinality({ p \in 1..Len(out) : out[p].type = type })

\* C30: on the plain-LLM path the answer is emitted exactly once. When astream
\* completes, the deltas are the non-empty chunk contents in order; when
\* astream raises, also after text chunks were emitted, and ainvoke succeeds,
\* the output contains the answer only once; when ainvoke raises as well, the
\* run ends with exactly one run-error and no run-finished.
C30_AnswerOnce ==
    (llm.used /\ pc \in {"Finished", "Errored", "Exhausted"}) =>
        /\ llm.astream = "completed" =>
              Deltas(out) = SelectSeq(llm.chunks, NonEmpty)
        /\ llm.ainvoke # "raised" =>
              /\ Text(Deltas(out)) = AnswerChunks
              /\ CountType("RUN_FINISHED") = 1 /\ CountType("RUN_ERROR") = 0
        /\ llm.ainvoke = "raised" =>
              /\ CountType("RUN_ERROR") = 1 /\ CountType("RUN_FINISHED") = 0
              /\ out[Len(out)].type = "RUN_ERROR"
====
